---- MODULE Spec2Model ----
(***************************************************************************)
(* Orchestrator ("Loader") of the voice-assistant platform together with   *)
(* the wake detector W it listens to.  One action per step of a thread of  *)
(* src/services/loader_service.py and src/services/kwd_service.py; a step  *)
(* ends at every blocking call (an RPC, a health poll), where the other    *)
(* threads of the process may run.  An RPC either returns or raises.       *)
(***************************************************************************)
EXTENDS Integers, Sequences, FiniteSets, TLC

\* ------------------------------------------------------------------ bounds
\* wake-handler threads alive at the same time (one is started per event)
NumHandlers == 1
\* readiness polls that fit into one worker's timeout
MaxPolls == 2
\* clock ticks of 500 ms a run may take
MaxTicks == 1
\* follow-up Timer threads blocked in the RPC that re-enables W at once
MaxTimerThreads == 1
\* follow-up utterances the user speaks in one run
MaxUtterances == 1
\* tokens Ollama streams for one completion
MaxTokens == 3
\* processes ever spawned for one worker
MaxSpawns == 5
\* unexpected worker exits in one run
MaxExits == 2
\* final results S produces for one dialog id
MaxFinals == 2
\* Speak and SpeakStream calls V accepts for one dialog id
MaxSpeaks == 2
\* NewDialog calls, turns written to one transcript, WriteApp calls
MaxNewDialogs == 2
MaxLines == 1
MaxWrites == 2
\* entries the app log holds before it rotates (rotation_size_mb) and the
\* backups kept (rotation_count)
RotationEntries == 1
RotationCount == 2
\* the wall clock (ms) when the run starts
ClockStartMs == 10000

\* ------------------------------------------------------- program constants
\* [system] min_vram_mb fallback
MinVramMb == 8000
\* [kwd] confidence_threshold default 0.6, in hundredths
ThresholdDefault == 60
\* [kwd] cooldown_ms default
CooldownDefaultMs == 1000
\* WakeDetector.event_queue maxsize
EventQueueMax == 100
\* ConfigLoader._validate: the least min_vram_mb and the port range
MinVramConfig == 8000
PortMin == 5001
PortMax == 5006

\* ------------------------------------------------------------ value sets
\* setup() starts the workers in this order
StartOrder == <<"logger", "kwd", "stt", "llm", "tts">>
Services == {"logger", "kwd", "stt", "llm", "tts"}
SystemStates == {"INITIALIZING", "IDLE", "DIALOG", "ERROR"}
\* classifier scores of an audio chunk, in hundredths
Scores == {50, 70}
\* confidence_threshold values a Configure request carries (0 = not set)
ConfigureThresholds == {0, 90}
\* cooldown_ms values a Configure request carries (0 = not set)
ConfigureCooldowns == {0, 500}
\* free accelerator memory (MiB) the GPU may report
FreeMbChoices == {4000, 10000}
NoEvent == [confidence |-> 0, timestamp_ms |-> 0, cooldown |-> 0, peer_calls |-> {}]
\* DialogManager.current_dialog_id = None
NoDialog == <<>>
Handlers == 1 .. NumHandlers
\* the threads listen_kwd_events can have running at once when two queued
\* events are yielded back to back: one more than are needed for one event
HandlerPool == 1 .. (NumHandlers + 1)
\* dialog ids of the Start and Stop requests S receives
SttDialogs == {1, 2}
\* service_name of the StartService and StopService requests
RpcNames == {"stt", "tts", "nosuch"}
\* request timestamps of NewDialog and the ids new_dialog makes of them
DialogTimestamps == {ClockStartMs, ClockStartMs + 1}
DialogIds == {<<t \div 1000, t % 1000>> : t \in DialogTimestamps}
WriteCalls == 1 .. MaxWrites
\* configuration files: the sections present, min_vram_mb and the port of
\* each service; the ports are the shipped ones with up to two entries changed
RequiredSections == {"system", "loader", "logger", "kwd", "stt", "llm", "tts"}
PortServices == <<"loader", "logger", "kwd", "stt", "llm", "tts">>
PortServiceSet == {PortServices[i] : i \in DOMAIN PortServices}
DefaultPorts ==
    [s \in PortServiceSet |->
        CASE s = "logger" -> 5001 [] s = "loader" -> 5002 [] s = "kwd" -> 5003
          [] s = "stt" -> 5004 [] s = "llm" -> 5005 [] s = "tts" -> 5006]
PortChoices == (PortMin - 1) .. (PortMax + 1)
PortAssignments ==
    {[DefaultPorts EXCEPT ![s] = a, ![t] = b] :
        s \in PortServiceSet, t \in PortServiceSet, a \in PortChoices, b \in PortChoices}
SectionChoices ==
    {RequiredSections, RequiredSections \cup {"extra"}}
        \cup {RequiredSections \ {x} : x \in RequiredSections}
Configs ==
    [sections : SectionChoices,
     min_vram_mb : {MinVramConfig - 1, MinVramConfig},
     port : PortAssignments]
DefaultConfig ==
    [sections |-> RequiredSections, min_vram_mb |-> MinVramConfig, port |-> DefaultPorts]
NoReply == [rpc |-> "none", name |-> "none", success |-> FALSE, code |-> 0]
\* the `response` field of an Ollama chunk, as a sequence of characters
TokenTexts == {<<>>, <<"a">>, <<"b", "c">>}
TokenSeqs == UNION {[1 .. n -> TokenTexts] : n \in 0 .. MaxTokens}

VARIABLES
    \* LoaderService
    system_state, stopping, listening, process, health_status,
    \* DialogManager
    current_dialog_id, turn_number, dialog_active, follow_up_timer,
    \* the thread running setup()
    spc, svc, polls,
    \* the wake-handler threads: position and locals
    hpc, hev, htext, hsite, hlog,
    \* Timer threads inside on_follow_up_timeout, blocked in kwd_stub.Enable
    timer_threads,
    \* the workers as processes
    wstate,
    \* WakeDetector
    kwd_enabled, kwd_threshold, kwd_cooldown_ms, last_detection_time,
    event_queue,
    \* environment: wall clock and GPU
    now, vram_free_mb,
    \* history
    last_accepted, seen_serving,
    \* the user: follow-up utterances spoken while the follow-up timer is armed
    utterances,
    \* one completion streamed from M through the orchestrator to V:
    \* M's Complete generator, generate_tts_chunks, V's SpeakStream
    ollama, mpc, llm_sent, llm_stream, bpc, chunk_count, tts_stream, vpc,
    full_text, audio_queue,
    \* ServiceInfo: pid, health client, restart counter; the number of
    \* processes spawned so far for each worker
    pid, health_client, restart_count, spawns,
    \* unexpected worker exits so far; the Status of the last management RPC
    exits, reply,
    \* SpeechRecognizer: the session of each dialog id and the final results
    \* put on its result queue so far
    stt_sessions, stt_finals,
    \* SpeechRecognizer.result_queues per dialog id (-1: no queue, else the
    \* results waiting in it) and the Results stream opened for the dialog id
    stt_queue, res_sub,
    \* TTSServicer, for one dialog id: playback_events[dialog_id] (present,
    \* content), the calls accepted, the sleeping finish_event threads, the
    \* SpeakStream inside its loop, the terminal events put per call, and the
    \* PlaybackEvents subscription
    pb_present, pb_queue, pb_calls, pb_threads, pb_stream, pb_terminal,
    sub, sub_for, sub_last,
    \* LogManager: the ids new_dialog returned, the turns in each transcript
    \* file (-1: no file) and the turns WriteDialog accepted for it; the lock
    \* (0: free, else the WriteApp call holding it), the position of each
    \* WriteApp call, the entries in the app log and the backups in log_dir
    new_dialogs, dialog_files, dialog_written, log_lock, wa_pc, app_size, backups,
    \* the configuration file and what ConfigLoader made of it
    cfg, cfg_verdict,
    \* the workers a shutdown killed, in the order of the kills, and whether
    \* the Ollama server is running
    kill_order, ollama_up,
    \* process_user_input after the stream: what tts_stub.SpeakStream gave the
    \* orchestrator, and the thread of monitor_playback_completion
    stream_result, monitor

loaderVars == <<system_state, stopping, listening, process, health_status>>
dialogVars == <<current_dialog_id, turn_number, dialog_active, follow_up_timer>>
setupVars == <<spc, svc, polls>>
handlerVars == <<hpc, hev, htext, hsite, hlog>>
kwdVars == <<kwd_enabled, kwd_threshold, kwd_cooldown_ms, last_detection_time,
             event_queue>>
envVars == <<now, vram_free_mb>>
histVars == <<last_accepted, seen_serving>>
streamVars == <<ollama, mpc, llm_sent, llm_stream, bpc, chunk_count, tts_stream,
                vpc, full_text, audio_queue>>
svcVars == <<pid, health_client, restart_count, spawns>>
opsVars == <<exits, reply>>
sttVars == <<stt_sessions, stt_finals, stt_queue, res_sub>>
pbVars == <<pb_present, pb_queue, pb_calls, pb_threads, pb_stream, pb_terminal,
            sub, sub_for, sub_last>>
logVars == <<new_dialogs, dialog_files, dialog_written, log_lock, wa_pc, app_size,
             backups>>
cfgVars == <<cfg, cfg_verdict>>
shutVars == <<kill_order, ollama_up>>
turnVars == <<stream_result, monitor>>
moreVars == <<pbVars, logVars, cfgVars, shutVars, turnVars>>
sideVars == <<utterances, sttVars, streamVars, opsVars, moreVars>>
extVars == <<sideVars, svcVars>>
vars == <<loaderVars, dialogVars, setupVars, handlerVars, timer_threads, wstate,
          kwdVars, envVars, histVars, extVars>>
\* the orchestrator, W and the clock, left alone by the workers' own handlers
coreVars == <<loaderVars, dialogVars, setupVars, handlerVars, timer_threads, wstate,
              kwdVars, envVars, histVars, utterances, svcVars, opsVars>>

\* ------------------------------------------------------------- helpers
\* handler history: RPCs issued, apologies played, outcome of the turn
NoLog == [calls |-> {}, played |-> <<>>, stream_ok |-> 0, forced |-> 0,
          armed |-> FALSE, rejected |-> FALSE, below |-> FALSE,
          created |-> FALSE, second |-> FALSE, final |-> FALSE,
          stop_ok |-> FALSE, turn_kept |-> TRUE]

\* HealthClient.check(): what a probe of a worker in state ws can return.
\* Connection refused, a 2 s timeout or any error map to UNKNOWN.
HealthCheckResults(ws) ==
    {"UNKNOWN"} \cup (IF ws = "serving" THEN {"SERVING"}
                      ELSE IF ws = "bound" THEN {"NOT_SERVING"} ELSE {})

\* start_and_wait_for_service: `if status == "SERVING"`
HealthReadyAny(status) == status # "UNKNOWN"
HealthReady(status) == status = "SERVING"

\* ---------------------------------------------------------------- Init
InitLoader ==
    /\ system_state = "INITIALIZING"
    /\ stopping = FALSE
    /\ listening = FALSE
    /\ process = [s \in Services |-> FALSE]
    /\ health_status = [s \in Services |-> "NOT_SERVING"]
    /\ current_dialog_id = NoDialog
    /\ turn_number = 0
    /\ dialog_active = FALSE
    /\ follow_up_timer = "None"
    /\ spc = "ollama"
    /\ svc = 1
    /\ polls = 0
    /\ hpc = [h \in HandlerPool |-> "free"]
    /\ hev = [h \in HandlerPool |-> NoEvent]
    /\ htext = [h \in HandlerPool |-> "none"]
    /\ hsite = [h \in HandlerPool |-> 0]
    /\ hlog = [h \in HandlerPool |-> NoLog]
    /\ timer_threads = 0

InitWorkers ==
    /\ wstate = [s \in Services |-> "off"]
    /\ kwd_enabled = FALSE
    /\ kwd_threshold = ThresholdDefault
    /\ kwd_cooldown_ms = CooldownDefaultMs
    /\ last_detection_time = 0
    /\ event_queue = <<>>

InitHistory ==
    /\ last_accepted = NoEvent
    /\ seen_serving = {}

\* no completion is being streamed
InitStreamIdle ==
    /\ ollama = <<>>
    /\ mpc = "idle"
    /\ llm_sent = <<>>
    /\ llm_stream = <<>>
    /\ bpc = "idle"
    /\ chunk_count = 0
    /\ tts_stream = <<>>
    /\ vpc = "idle"
    /\ full_text = <<>>
    /\ audio_queue = <<>>

\* ServiceInfo.__init__ for every worker; no management RPC served yet
InitServices ==
    /\ pid = [s \in Services |-> 0]
    /\ health_client = [s \in Services |-> FALSE]
    /\ restart_count = [s \in Services |-> 0]
    /\ spawns = [s \in Services |-> 0]
    /\ exits = 0
    /\ reply = NoReply
    /\ stt_sessions = [d \in SttDialogs |-> "none"]
    /\ stt_finals = [d \in SttDialogs |-> 0]
    /\ stt_queue = [d \in SttDialogs |-> -1]
    /\ res_sub = [d \in SttDialogs |-> "none"]

\* TTSServicer.__init__: playback_events = {}
InitPlayback ==
    /\ pb_present = FALSE
    /\ pb_queue = <<>>
    /\ pb_calls = 0
    /\ pb_threads = {}
    /\ pb_stream = 0
    /\ pb_terminal = [r \in 1 .. MaxSpeaks |-> 0]
    /\ sub = "none"
    /\ sub_for = 0
    /\ sub_last = 0

\* LogManager.__init__: a free lock, no dialog files, and after
\* _reset_app_log an empty app log (a first run: no backup yet)
InitLogManager ==
    /\ new_dialogs = <<>>
    /\ dialog_files = [id \in DialogIds |-> -1]
    /\ dialog_written = [id \in DialogIds |-> 0]
    /\ log_lock = 0
    /\ wa_pc = [c \in WriteCalls |-> "new"]
    /\ app_size = 0
    /\ backups = 0

\* LoaderService.__init__ has returned: the configuration was accepted
InitConfigLoaded ==
    /\ cfg = DefaultConfig
    /\ cfg_verdict = "accepted"

\* no shutdown yet; setup() has not started the Ollama server
InitShutdown ==
    /\ kill_order = <<>>
    /\ ollama_up = FALSE

\* no SpeakStream call has returned; no monitor thread
InitTurn ==
    /\ stream_result = "none"
    /\ monitor = "none"

InitMore ==
    /\ InitPlayback
    /\ InitLogManager
    /\ InitConfigLoaded
    /\ InitShutdown
    /\ InitTurn

InitExt ==
    /\ utterances = 0
    /\ InitStreamIdle
    /\ InitServices
    /\ InitMore

Init ==
    /\ InitLoader
    /\ InitWorkers
    /\ InitHistory
    /\ InitExt
    /\ now = ClockStartMs
    /\ vram_free_mb \in FreeMbChoices

\* ------------------------------------------------------- LoaderService.setup
\* process.poll() is None
RunningWsIfServing(ws) == ws = "serving"
RunningWs(ws) == ws \in {"loading", "bound", "serving"}
Running(s) == process[s] /\ RunningWs(wstate[s])

\* what a shutdown reads and writes
ShutdownState ==
    [stopping |-> stopping, follow_up_timer |-> follow_up_timer,
     process |-> process, pid |-> pid, health_client |-> health_client,
     wstate |-> wstate, kwd_enabled |-> kwd_enabled, event_queue |-> event_queue,
     kill_order |-> kill_order, ollama_up |-> ollama_up]

\* the workers of order whose process is running in st, in that order
KilledIn(order, st) ==
    LET running(s) == st.process[s] /\ RunningWs(st.wstate[s])
    IN SelectSeq(order, running)

\* cleanup(): `for name in ['kwd', 'stt', 'llm', 'tts', 'logger']`
CleanupOrder == <<"kwd", "stt", "llm", "tts", "logger">>
\* _signal_handler(): `for name, service in self.services.items()`, the
\* order in which __init__ fills the dictionary
SignalOrder == <<"logger", "tts", "llm", "stt", "kwd">>

\* `if self.stopping: return` of cleanup() and _signal_handler()
NeverStopping(flag) == FALSE
AlreadyStopping(flag) == flag

\* cleanup(): flag, cancel the timer, stop_service(name, force=True) for every
\* worker: a running process is killed and its handle and pid are cleared,
\* every health client is closed; the Ollama server is terminated and
\* `pkill -f ollama` run
CleanupOf(st) ==
    IF AlreadyStopping(st.stopping) THEN st
    ELSE [st EXCEPT
            !.stopping = TRUE,
            !.follow_up_timer = "None",
            !.process = [s \in Services |->
                            st.process[s] /\ ~RunningWs(st.wstate[s])],
            !.pid = [s \in Services |->
                        IF st.process[s] /\ RunningWs(st.wstate[s]) THEN 0
                        ELSE st.pid[s]],
            !.health_client = [s \in Services |-> FALSE],
            !.wstate = [s \in Services |->
                           IF st.process[s] /\ RunningWs(st.wstate[s]) THEN "off"
                           ELSE st.wstate[s]],
            !.kwd_enabled = FALSE,
            !.event_queue = <<>>,
            !.kill_order = st.kill_order \o KilledIn(CleanupOrder, st),
            !.ollama_up = FALSE]

\* _signal_handler(): flag, kill every running worker (the handles stay),
\* sys.exit(0)
SignalOf(st) ==
    IF AlreadyStopping(st.stopping) THEN st
    ELSE [st EXCEPT
            !.stopping = TRUE,
            !.wstate = [s \in Services |->
                           IF st.process[s] /\ RunningWs(st.wstate[s]) THEN "off"
                           ELSE st.wstate[s]],
            !.kwd_enabled = FALSE,
            !.event_queue = <<>>,
            !.kill_order = st.kill_order \o KilledIn(SignalOrder, st)]

ApplyShutdown(st) ==
    /\ stopping' = st.stopping
    /\ follow_up_timer' = st.follow_up_timer
    /\ process' = st.process
    /\ pid' = st.pid
    /\ health_client' = st.health_client
    /\ wstate' = st.wstate
    /\ kwd_enabled' = st.kwd_enabled
    /\ event_queue' = st.event_queue
    /\ kill_order' = st.kill_order
    /\ ollama_up' = st.ollama_up

Cleanup == ApplyShutdown(CleanupOf(ShutdownState))

\* the except branch of setup(): ERROR, cleanup(), re-raise
SetupFail ==
    /\ system_state' = "ERROR"
    /\ spc' = "failed"
    /\ Cleanup
    /\ UNCHANGED <<listening, health_status, current_dialog_id, turn_number,
                   dialog_active, svc, polls, handlerVars, timer_threads,
                   kwd_threshold, kwd_cooldown_ms, last_detection_time,
                   envVars, histVars, utterances, sttVars, streamVars, opsVars,
                   pbVars, logVars, cfgVars, turnVars, restart_count, spawns>>

SetupStep(next) ==
    /\ spc' = next
    /\ UNCHANGED <<loaderVars, dialogVars, svc, polls, handlerVars, timer_threads,
                   wstate, kwdVars, envVars, histVars, extVars>>

\* start_ollama_server(): the server answers, having been running or after
\* `ollama serve`, or it does not in time
SetupOllama ==
    /\ spc = "ollama"
    /\ \E ok \in BOOLEAN :
         IF ok
         THEN /\ spc' = "preload"
              /\ ollama_up' = TRUE
              /\ UNCHANGED <<loaderVars, dialogVars, svc, polls, handlerVars,
                             timer_threads, wstate, kwdVars, envVars, histVars,
                             utterances, sttVars, streamVars, opsVars, svcVars,
                             pbVars, logVars, cfgVars, turnVars, kill_order>>
         ELSE SetupFail

\* preload_llm_model()
SetupPreload ==
    /\ spc = "preload"
    /\ \E ok \in BOOLEAN : IF ok THEN SetupStep("spawn") ELSE SetupFail

\* start_service(name) as called by start_and_wait_for_service
SetupSpawn ==
    /\ spc = "spawn"
    /\ \E ok \in BOOLEAN :
         IF ok
         THEN /\ process' = [process EXCEPT ![StartOrder[svc]] = TRUE]
              /\ pid' = [pid EXCEPT ![StartOrder[svc]] = spawns[StartOrder[svc]] + 1]
              /\ spawns' = [spawns EXCEPT ![StartOrder[svc]] = @ + 1]
              /\ health_client' = [health_client EXCEPT ![StartOrder[svc]] = TRUE]
              /\ wstate' = [wstate EXCEPT ![StartOrder[svc]] = "loading"]
              /\ spc' = "poll"
              /\ polls' = 0
              /\ UNCHANGED <<system_state, stopping, listening, health_status,
                             dialogVars, svc, handlerVars, timer_threads, kwdVars,
                             envVars, histVars, sideVars, restart_count>>
         ELSE SetupFail

\* one iteration of the readiness loop of start_and_wait_for_service
SetupPoll ==
    /\ spc = "poll"
    /\ LET s == StartOrder[svc] IN
       IF polls >= MaxPolls
       THEN SetupFail
       ELSE \E status \in HealthCheckResults(wstate[s]) :
              /\ health_status' = [health_status EXCEPT ![s] =
                      IF status \in {"SERVING", "NOT_SERVING"} THEN status ELSE "UNKNOWN"]
              /\ seen_serving' = IF status = "SERVING" THEN seen_serving \cup {s}
                                 ELSE seen_serving
              /\ IF HealthReady(status)
                 THEN /\ polls' = 0
                      /\ IF s = "logger" THEN spc' = "write_app" /\ svc' = svc
                         ELSE IF svc = Len(StartOrder) THEN spc' = "warmup" /\ svc' = svc
                         ELSE spc' = "spawn" /\ svc' = svc + 1
                 ELSE /\ polls' = polls + 1
                      /\ UNCHANGED <<spc, svc>>
              /\ UNCHANGED <<system_state, stopping, listening, process, dialogVars,
                             handlerVars, timer_threads, wstate, kwdVars, envVars,
                             last_accepted, extVars>>

\* logger_stub.WriteApp(startup): an RPC error ends setup
SetupWriteApp ==
    /\ spc = "write_app"
    /\ \E ok \in BOOLEAN :
         IF ok
         THEN /\ spc' = "spawn"
              /\ svc' = svc + 1
              /\ UNCHANGED <<loaderVars, dialogVars, polls, handlerVars,
                             timer_threads, wstate, kwdVars, envVars, histVars, extVars>>
         ELSE SetupFail

\* play_warmup_greeting(): failures are logged only
SetupWarmup ==
    /\ spc = "warmup"
    /\ SetupStep("listeners")

\* start_event_listeners(): the thread running listen_kwd_events
SetupListeners ==
    /\ spc = "listeners"
    /\ listening' = TRUE
    /\ spc' = "set_idle"
    /\ UNCHANGED <<system_state, stopping, process, health_status, dialogVars, svc,
                   polls, handlerVars, timer_threads, wstate, kwdVars, envVars,
                   histVars, extVars>>

\* self.system_state = SystemState.IDLE
SetupIdle ==
    /\ spc = "set_idle"
    /\ system_state' = "IDLE"
    /\ spc' = "ready"
    /\ UNCHANGED <<stopping, listening, process, health_status, dialogVars, svc,
                   polls, handlerVars, timer_threads, wstate, kwdVars, envVars,
                   histVars, extVars>>

\* ------------------------------------------------- worker processes
\* BaseService.start() of a worker: setup(), server.start(), then SERVING
WorkerStart(s) ==
    /\ wstate[s] \in {"loading", "bound"}
    /\ \E ok \in (IF wstate[s] = "loading" THEN BOOLEAN ELSE {TRUE}) :
         /\ wstate' = [wstate EXCEPT ![s] =
                IF ~ok THEN "crashed" ELSE IF wstate[s] = "loading" THEN "bound"
                ELSE "serving"]
         \* WakeDetector.initialize(): detection is enabled by default
         /\ kwd_enabled' = IF s = "kwd" /\ ok /\ wstate[s] = "loading"
                           THEN TRUE ELSE IF s = "kwd" /\ ~ok THEN FALSE
                           ELSE kwd_enabled
    /\ UNCHANGED <<loaderVars, dialogVars, setupVars, handlerVars, timer_threads,
                   kwd_threshold, kwd_cooldown_ms, last_detection_time, event_queue,
                   envVars, histVars, extVars>>

\* ------------------------------------------------- WakeDetector (W)
KwdUp == wstate["kwd"] \in {"bound", "serving"}

\* _audio_processing_loop: `if current_time - last_detection_time < cooldown_ms: continue`
CooldownIgnored(t, last, cd) == TRUE
CooldownElapsed(t, last, cd) == ~(t - last < cd)

\* _audio_processing_loop: `if score >= self.threshold`
ScoreAccepted(score, threshold) == score >= threshold

\* WakeDetector.start(): enable, drop pending events
KwdStartEffect ==
    /\ kwd_enabled' = TRUE
    /\ event_queue' = <<>>
    /\ UNCHANGED <<kwd_threshold, kwd_cooldown_ms, last_detection_time>>

\* W.Enable, served by the wake-word variant the orchestrator launches
\* (services/kwd/kwd_service.py): detection is switched on
KwdEnableEffect ==
    /\ kwd_enabled' = TRUE
    /\ UNCHANGED <<kwd_threshold, kwd_cooldown_ms, last_detection_time, event_queue>>

\* W.Disable of the same variant: detection is switched off
KwdDisableEffect ==
    /\ kwd_enabled' = FALSE
    /\ UNCHANGED <<kwd_threshold, kwd_cooldown_ms, last_detection_time, event_queue>>

\* _handle_wake_detection: the RPCs W itself makes for a detection before it
\* queues the WakeEvent: tts_stub.Speak(yes phrase), logger_stub.NewDialog and
\* stt_stub.Start(dialog_id, turn 1)
WakePeerCalls == {"Speak", "NewDialog", "Start"}

\* one audio chunk whose score reaches the threshold: _handle_wake_detection
\* (which gives up silently when one of its own calls to V, L or S raises),
\* then last_detection_time; a chunk below the threshold changes nothing
KwdDetect ==
    /\ KwdUp
    /\ kwd_enabled
    /\ CooldownElapsed(now, last_detection_time, kwd_cooldown_ms)
    /\ \E score \in Scores, peers_ok \in BOOLEAN :
         /\ ScoreAccepted(score, kwd_threshold)
         /\ IF peers_ok
            THEN /\ kwd_enabled' = FALSE
                 /\ event_queue' =
                      IF Len(event_queue) < EventQueueMax
                      THEN Append(event_queue,
                                  [confidence |-> score, timestamp_ms |-> now,
                                   cooldown |-> kwd_cooldown_ms,
                                   peer_calls |-> WakePeerCalls])
                      ELSE event_queue
            ELSE UNCHANGED <<kwd_enabled, event_queue>>
    /\ last_detection_time' = now
    /\ UNCHANGED <<loaderVars, dialogVars, setupVars, handlerVars, timer_threads,
                   wstate, kwd_threshold, kwd_cooldown_ms, envVars, histVars, extVars>>

\* KwdServicer.Configure
KwdConfigure ==
    /\ KwdUp
    /\ \E th \in ConfigureThresholds, cd \in ConfigureCooldowns :
         /\ th > 0 \/ cd > 0
         /\ kwd_threshold' = IF th > 0 THEN th ELSE kwd_threshold
         /\ kwd_cooldown_ms' = IF cd > 0 THEN cd ELSE kwd_cooldown_ms
    /\ UNCHANGED <<loaderVars, dialogVars, setupVars, handlerVars, timer_threads,
                   wstate, kwd_enabled, last_detection_time, event_queue,
                   envVars, histVars, extVars>>

\* KwdServicer.Start, as S calls it from _end_dialog
KwdStart ==
    /\ KwdUp
    /\ KwdStartEffect
    /\ UNCHANGED <<loaderVars, dialogVars, setupVars, handlerVars, timer_threads,
                   wstate, envVars, histVars, extVars>>

\* WakeDetector.stop(): `self.enabled = False; return True`
KwdStopOf(enabled) == [enabled |-> FALSE, ok |-> TRUE]

\* KwdServicer.Stop
KwdStop ==
    /\ KwdUp
    /\ kwd_enabled' = KwdStopOf(kwd_enabled).enabled
    /\ UNCHANGED <<loaderVars, dialogVars, setupVars, handlerVars, timer_threads,
                   wstate, kwd_threshold, kwd_cooldown_ms, last_detection_time,
                   event_queue, envVars, histVars, extVars>>

\* ------------------------------------------------- SpeechRecognizer
SttUp == wstate["stt"] \in {"bound", "serving"}

\* the session of dialog id d, the final results emitted for it, its result
\* queue and the Results stream of the dialog id
SessionOf(d) == [session |-> stt_sessions[d], finals |-> stt_finals[d],
                 queue |-> stt_queue[d], sub |-> res_sub[d]]

\* a Results stream blocked in `result_queues[dialog_id].get(timeout=1.0)`
\* holds the queue object: a result put on it reaches the stream whatever
\* happens to the dictionary entry afterwards
Waiting(stream) == stream = "blocked"
\* a stream blocked on a queue that left the dictionary receives nothing
\* before its next get_result
Detached(stream) == IF stream = "blocked" THEN "idle" ELSE stream

\* _finalize_recognition: one final result is put on the result queue of the
\* dialog and the session is marked finalized
FinalizeOf(st) ==
    [session |-> "finalized",
     finals |-> st.finals + 1,
     queue |-> IF Waiting(st.sub) THEN st.queue ELSE st.queue + 1,
     sub |-> IF Waiting(st.sub) THEN "ended" ELSE st.sub]

\* stop_recognition(dialog_id): a session that is not finalized is finalized
\* (one final result is put on the result queue), then the session, its
\* audio buffer and its result queue are deleted; returns True
StopRecognitionOf(st) ==
    LET fin == IF st.session = "active" THEN FinalizeOf(st) ELSE st IN
    [state |-> [session |-> "none",
                finals |-> fin.finals,
                queue |-> -1,
                sub |-> Detached(fin.sub)],
     ok |-> TRUE]

\* the session of dialog id d becomes st
ApplySession(d, st) ==
    /\ stt_sessions' = [stt_sessions EXCEPT ![d] = st.session]
    /\ stt_finals' = [stt_finals EXCEPT ![d] = st.finals]
    /\ stt_queue' = [stt_queue EXCEPT ![d] = st.queue]
    /\ res_sub' = [res_sub EXCEPT ![d] = st.sub]

\* SttServicer.Start: start_recognition creates the session, its audio
\* buffer and a new result queue
SttStart(d) ==
    /\ SttUp
    /\ stt_finals[d] < MaxFinals
    /\ ApplySession(d, [session |-> "active", finals |-> stt_finals[d],
                        queue |-> 0, sub |-> Detached(res_sub[d])])
    /\ UNCHANGED <<coreVars, streamVars, moreVars>>

\* _audio_processing_loop, _process_audio_with_vad: more than 10 chunks and
\* vad_silence_ms of silence finalize the session, which stays in
\* active_sessions until Stop; session['finalized'] is not read here
SttProcess(d) ==
    /\ SttUp
    /\ stt_sessions[d] # "none"
    /\ stt_finals[d] < MaxFinals
    /\ ApplySession(d, FinalizeOf(SessionOf(d)))
    /\ UNCHANGED <<coreVars, streamVars, moreVars>>

\* SttServicer.Stop
SttStop(d) ==
    /\ SttUp
    /\ ApplySession(d, StopRecognitionOf(SessionOf(d)).state)
    /\ UNCHANGED <<coreVars, streamVars, moreVars>>

\* SttServicer.Results is entered
ResultsOpen(d) ==
    /\ SttUp
    /\ res_sub[d] = "none"
    /\ res_sub' = [res_sub EXCEPT ![d] = "idle"]
    /\ UNCHANGED <<stt_sessions, stt_finals, stt_queue>>
    /\ UNCHANGED <<coreVars, streamVars, moreVars>>

\* Results, one get_result(dialog_id, timeout=1.0): None when the dialog has
\* no result queue, else the next result, which is yielded and, being final,
\* ends the stream; on an empty queue the call blocks
ResultsGet(d) ==
    /\ SttUp
    /\ res_sub[d] = "idle"
    /\ IF stt_queue[d] = -1
       THEN UNCHANGED <<stt_queue, res_sub>>
       ELSE IF stt_queue[d] = 0
       THEN /\ res_sub' = [res_sub EXCEPT ![d] = "blocked"]
            /\ UNCHANGED stt_queue
       ELSE /\ res_sub' = [res_sub EXCEPT ![d] = "ended"]
            /\ stt_queue' = [stt_queue EXCEPT ![d] = @ - 1]
    /\ UNCHANGED <<stt_sessions, stt_finals>>
    /\ UNCHANGED <<coreVars, streamVars, moreVars>>

\* the blocked get raises queue.Empty after its timeout: get_result returns
\* None and the loop of Results goes round
ResultsTimeout(d) ==
    /\ SttUp
    /\ res_sub[d] = "blocked"
    /\ res_sub' = [res_sub EXCEPT ![d] = "idle"]
    /\ UNCHANGED <<stt_sessions, stt_finals, stt_queue>>
    /\ UNCHANGED <<coreVars, streamVars, moreVars>>

\* the wall clock advances by 500 ms
Tick ==
    /\ now < ClockStartMs + 500 * MaxTicks
    /\ now' = now + 500
    /\ UNCHANGED <<loaderVars, dialogVars, setupVars, handlerVars, timer_threads,
                   wstate, kwdVars, vram_free_mb, histVars, extVars>>

\* ------------------------------------------------- DialogManager
\* start_dialog(dialog_id)
StartDialog(id) ==
    /\ current_dialog_id' = id
    /\ turn_number' = 1
    /\ dialog_active' = TRUE

\* end_dialog(): cancel the timer, clear the Dialog
EndDialog ==
    /\ follow_up_timer' = "None"
    /\ current_dialog_id' = NoDialog
    /\ turn_number' = 0
    /\ dialog_active' = FALSE

\* LogManager.new_dialog: the id is the request timestamp formatted to the
\* second, followed by its milliseconds (timestamp_ms % 1000)
DialogIdOf(timestamp_ms) == <<timestamp_ms \div 1000, timestamp_ms % 1000>>

\* ------------------------------------------------- wake-handler threads
\* how the Dialog was created is remembered up to the handler's next step;
\* what is kept of the history of a handler that has returned: its outcome
Forget(log) == [log EXCEPT !.created = FALSE, !.second = FALSE, !.below = FALSE]
Kept(log) == [Forget(log) EXCEPT !.calls = @ \cap {"Complete"}]
\* the history of handler h becomes log; pc is the handler's next position
Logged(h, log, pc) == [hlog EXCEPT ![h] = IF pc = "done" THEN Kept(log) ELSE log]
Called(h, rpcs) == [hlog[h] EXCEPT !.calls = @ \cup rpcs]

\* handle_wake_event: `if self.system_state != SystemState.IDLE: return`
WakeAcceptableUnlessDialog(state) == state # "DIALOG"
WakeAcceptable(state) == state = "IDLE"

\* listen_kwd_events: W.Events yields the next queued event and a thread
\* running handle_wake_event is started for it
DeliverWakeTo(threads) ==
    /\ listening
    /\ KwdUp
    /\ event_queue # <<>>
    /\ \E h \in threads :
         /\ hpc[h] \in {"free", "done"}
         /\ \A g \in threads : g < h => hpc[g] \notin {"free", "done"}
         /\ hpc' = [hpc EXCEPT ![h] = "check"]
         /\ hev' = [hev EXCEPT ![h] = Head(event_queue)]
         /\ htext' = [htext EXCEPT ![h] = "none"]
         /\ hsite' = [hsite EXCEPT ![h] = 0]
         /\ hlog' = [hlog EXCEPT ![h] = NoLog]
    /\ event_queue' = Tail(event_queue)
    /\ UNCHANGED <<loaderVars, dialogVars, setupVars, timer_threads, wstate,
                   kwd_enabled, kwd_threshold, kwd_cooldown_ms, last_detection_time,
                   envVars, histVars, extVars>>

DeliverWakeEvent == DeliverWakeTo(Handlers)
\* the same with a thread to spare for the next queued event
DeliverWakeEventPool == DeliverWakeTo(HandlerPool)

\* the IDLE check of handle_wake_event
HandleWakeCheck(h) ==
    /\ hpc[h] = "check"
    /\ IF WakeAcceptable(system_state)
       THEN /\ hpc' = [hpc EXCEPT ![h] = "set_dialog"]
            /\ hlog' = [hlog EXCEPT ![h].below = hev[h].confidence < kwd_threshold]
            /\ hev' = hev
       ELSE /\ hpc' = [hpc EXCEPT ![h] = "done"]
            /\ hlog' = [hlog EXCEPT ![h].rejected = TRUE]
            /\ hev' = [hev EXCEPT ![h] = NoEvent]
    /\ UNCHANGED <<loaderVars, dialogVars, setupVars, htext, hsite,
                   timer_threads, wstate, kwdVars, envVars, histVars, extVars>>

\* self.system_state = SystemState.DIALOG
HandleWakeSetDialog(h) ==
    /\ hpc[h] = "set_dialog"
    /\ system_state' = "DIALOG"
    /\ hpc' = [hpc EXCEPT ![h] = "new_dialog"]
    /\ UNCHANGED <<stopping, listening, process, health_status, dialogVars,
                   setupVars, hev, htext, hsite, hlog, timer_threads, wstate,
                   kwdVars, envVars, histVars, extVars>>

\* the except branch of handle_wake_event: log, back to IDLE
WakeFailed(h) ==
    /\ system_state' = "IDLE"
    /\ hpc' = [hpc EXCEPT ![h] = "done"]

\* logger_stub.NewDialog, then dialog_manager.start_dialog(dialog_id)
HandleWakeNewDialog(h) ==
    /\ hpc[h] = "new_dialog"
    /\ hev' = [hev EXCEPT ![h] = NoEvent]
    /\ \E ok \in BOOLEAN :
         /\ hlog' = Logged(h, [hlog[h] EXCEPT !.calls = @ \cup {"NewDialog"},
                                               !.created = ok,
                                               !.second = ok /\ last_accepted # NoEvent],
                            IF ok THEN "disable" ELSE "done")
         /\ IF ok
            THEN /\ StartDialog(DialogIdOf(now))
                 /\ last_accepted' = hev[h]
                 /\ hpc' = [hpc EXCEPT ![h] = "disable"]
                 /\ UNCHANGED <<system_state, follow_up_timer>>
            ELSE /\ WakeFailed(h)
                 /\ UNCHANGED <<dialogVars, last_accepted>>
    /\ UNCHANGED <<stopping, listening, process, health_status, setupVars,
                   htext, hsite, timer_threads, wstate, kwdVars, envVars,
                   seen_serving, extVars>>

\* kwd_stub.Disable
HandleWakeDisable(h) ==
    /\ hpc[h] = "disable"
    /\ \E ok \in BOOLEAN :
         IF ok /\ KwdUp
         THEN /\ KwdDisableEffect
              /\ hpc' = [hpc EXCEPT ![h] = "speak_yes"]
              /\ hlog' = Logged(h, Forget(Called(h, {"Disable"})), "speak_yes")
              /\ UNCHANGED system_state
         ELSE /\ WakeFailed(h)
              /\ hlog' = Logged(h, Called(h, {"Disable"}), "done")
              /\ UNCHANGED kwdVars
    /\ UNCHANGED <<stopping, listening, process, health_status, dialogVars,
                   setupVars, hev, htext, hsite, timer_threads, wstate,
                   envVars, histVars, extVars>>

\* a call of handle_wake_event that only returns or raises:
\* tts_stub.Speak(yes phrase) and stt_stub.Start
HandleWakeCall(h, at, rpc, next) ==
    /\ hpc[h] = at
    /\ \E ok \in BOOLEAN :
         IF ok
         THEN /\ hpc' = [hpc EXCEPT ![h] = next]
              /\ hlog' = Logged(h, Called(h, {rpc}), next)
              /\ UNCHANGED system_state
         ELSE /\ WakeFailed(h)
              /\ hlog' = Logged(h, Called(h, {rpc}), "done")
    /\ UNCHANGED <<stopping, listening, process, health_status, dialogVars,
                   setupVars, hev, htext, hsite, timer_threads, wstate,
                   kwdVars, envVars, histVars, extVars>>

HandleWakeSpeak(h) == HandleWakeCall(h, "speak_yes", "SpeakYes", "stt_start")
HandleWakeSttStart(h) == HandleWakeCall(h, "stt_start", "SttStart", "results")

\* listen_stt_results: the S.Results stream delivers the final result of the
\* turn, or breaks or closes without one (logged, nothing else)
ListenSttResults(h) ==
    /\ hpc[h] = "results"
    /\ \E r \in {"text", "empty", "no_final"} :
         IF r = "no_final"
         THEN /\ hpc' = [hpc EXCEPT ![h] = "done"]
              /\ hlog' = Logged(h, hlog[h], "done")
              /\ UNCHANGED htext
         ELSE /\ hpc' = [hpc EXCEPT ![h] = "stt_stop"]
              /\ htext' = [htext EXCEPT ![h] = r]
              /\ hlog' = [hlog EXCEPT ![h].final = TRUE]
    /\ UNCHANGED <<loaderVars, dialogVars, setupVars, hev, hsite,
                   timer_threads, wstate, kwdVars, envVars, histVars, extVars>>

\* process_user_input: `if not user_text or user_text.strip() == ""`
IsEmptyInputNever(text) == FALSE
IsEmptyInput(text) == text = "empty"

\* process_user_input up to the empty-input check: stt_stub.Stop, then
\* cancel_follow_up_timer; a failing Stop lands in the outer except (line 631)
ProcessStop(h) ==
    /\ hpc[h] = "stt_stop"
    /\ \E ok \in BOOLEAN :
         /\ hlog' = [hlog EXCEPT ![h].calls = @ \cup {"SttStop"}, ![h].stop_ok = ok]
         /\ IF ok
            THEN /\ follow_up_timer' = "None"
                 /\ IF IsEmptyInput(htext[h])
                    THEN /\ hpc' = [hpc EXCEPT ![h] = "apology"]
                         /\ hsite' = [hsite EXCEPT ![h] = 569]
                    ELSE /\ hpc' = [hpc EXCEPT ![h] = "stream"]
                         /\ hsite' = hsite
            ELSE /\ hpc' = [hpc EXCEPT ![h] = "apology"]
                 /\ hsite' = [hsite EXCEPT ![h] = 631]
                 /\ follow_up_timer' = follow_up_timer
    /\ UNCHANGED <<loaderVars, current_dialog_id, turn_number, dialog_active,
                   setupVars, hev, htext, timer_threads, wstate, kwdVars,
                   envVars, histVars, extVars>>

\* process_user_input: `if tts_response.success`
StreamSucceededAlways(resp) == TRUE
StreamSucceeded(resp) == resp = "ok"

\* process_user_input: M.Complete piped into V.SpeakStream.  The call returns
\* success or failure, or raises an RpcError or another exception
ProcessStream(h) ==
    /\ hpc[h] = "stream"
    /\ \E resp \in {"ok", "failed", "rpc_error", "exception"} :
         IF resp \in {"ok", "failed"} /\ StreamSucceeded(resp)
         THEN \* start_follow_up_timer, monitor_playback_completion
              /\ follow_up_timer' = "pending"
              /\ hpc' = [hpc EXCEPT ![h] = "done"]
              /\ hsite' = hsite
              /\ hlog' = Logged(h, [hlog[h] EXCEPT
                                        !.calls = @ \cup {"Complete", "SpeakStream"},
                                        !.stream_ok = IF resp = "ok" THEN 1 ELSE 0,
                                        !.armed = TRUE], "done")
         ELSE /\ follow_up_timer' = follow_up_timer
              /\ hpc' = [hpc EXCEPT ![h] = "apology"]
              /\ hsite' = [hsite EXCEPT ![h] =
                     IF resp = "failed" THEN 620 ELSE IF resp = "rpc_error" THEN 624
                     ELSE 627]
              /\ hlog' = Logged(h, Called(h, {"Complete", "SpeakStream"}), "apology")
    /\ UNCHANGED <<loaderVars, current_dialog_id, turn_number, dialog_active,
                   setupVars, hev, htext, timer_threads, wstate, kwdVars,
                   envVars, histVars, extVars>>

\* the error type play_error_prompt is called with at each call site
PromptOf(site) ==
    IF site = 569 THEN "stt_error"
    ELSE IF site = 620 THEN "tts_error"
    ELSE IF site = 624 THEN "llm_error"
    ELSE "general_error"

\* where an exception leaving play_error_prompt is caught: a call in the inner
\* try body (620) by `except grpc.RpcError` (624) or `except Exception` (627),
\* depending on its type; a call in an inner except handler or in the outer
\* try body by the outer except (631); the call in the outer except by
\* listen_stt_results (0: logged, the handler returns)
CaughtAt(site) ==
    IF site = 620 THEN {624, 627} ELSE IF site = 631 THEN {0} ELSE {631}

\* play_error_prompt: V.Speak(apology); on return the follow-up timer is
\* started, on an exception on_follow_up_timeout() is called directly and
\* begins with end_dialog()
SpeakReturned(ok) == ok

PlayErrorPrompt(h) ==
    /\ hpc[h] = "apology"
    /\ \E ok \in BOOLEAN :
         IF SpeakReturned(ok)
         THEN /\ follow_up_timer' = "pending"
              /\ hpc' = [hpc EXCEPT ![h] = "done"]
              /\ hlog' = Logged(h, [hlog[h] EXCEPT
                                        !.calls = @ \cup {"SpeakApology"},
                                        !.played = IF ok THEN Append(@, PromptOf(hsite[h]))
                                                   ELSE @,
                                        !.armed = TRUE], "done")
              /\ hsite' = [hsite EXCEPT ![h] = 0]
              /\ UNCHANGED <<current_dialog_id, turn_number, dialog_active>>
         ELSE /\ EndDialog
              /\ hsite' = hsite
              /\ hpc' = [hpc EXCEPT ![h] = "force_enable"]
              /\ hlog' = [hlog EXCEPT ![h].calls = @ \cup {"SpeakApology"},
                                      ![h].forced = @ + 1,
                                      ![h].turn_kept = (turn_number = 0)]
    /\ UNCHANGED <<loaderVars, setupVars, hev, htext, timer_threads,
                   wstate, kwdVars, envVars, histVars, extVars>>

\* on_follow_up_timeout() called from play_error_prompt, after end_dialog():
\* kwd_stub.Enable, then IDLE; an exception of Enable leaves play_error_prompt
ForceEnable(h) ==
    /\ hpc[h] = "force_enable"
    /\ \E ok \in BOOLEAN :
         IF ok /\ KwdUp
         THEN /\ KwdEnableEffect
              /\ system_state' = "IDLE"
              /\ hpc' = [hpc EXCEPT ![h] = "done"]
              /\ hsite' = [hsite EXCEPT ![h] = 0]
              /\ hlog' = Logged(h, Called(h, {"Enable"}), "done")
         ELSE /\ UNCHANGED <<kwdVars, system_state>>
              /\ \E site \in CaughtAt(hsite[h]) :
                   /\ hsite' = [hsite EXCEPT ![h] = site]
                   /\ hpc' = [hpc EXCEPT ![h] = IF site = 0 THEN "done" ELSE "apology"]
                   /\ hlog' = Logged(h, Called(h, {"Enable"}),
                                      IF site = 0 THEN "done" ELSE "apology")
    /\ UNCHANGED <<stopping, listening, process, health_status, dialogVars,
                   setupVars, hev, htext, timer_threads, wstate, envVars,
                   histVars, extVars>>

\* ------------------------------------------------- follow-up Timer thread
\* the Timer started by start_follow_up_timer expires and its thread enters
\* on_follow_up_timeout: end_dialog()
TimerFire ==
    /\ follow_up_timer = "pending"
    /\ timer_threads < MaxTimerThreads
    /\ EndDialog
    /\ timer_threads' = timer_threads + 1
    /\ UNCHANGED <<loaderVars, setupVars, handlerVars, wstate, kwdVars, envVars,
                   histVars, extVars>>

\* on_follow_up_timeout: `self.system_state = SystemState.IDLE` is reached
\* only when kwd_stub.Enable returned
IdleAfterEnable(ok) == ok

\* on_follow_up_timeout in the Timer thread: kwd_stub.Enable, then IDLE; when
\* Enable raises the thread ends with the exception
TimerEnable ==
    /\ timer_threads > 0
    /\ timer_threads' = timer_threads - 1
    /\ \E ok \in BOOLEAN :
         /\ IF ok /\ KwdUp THEN KwdEnableEffect ELSE UNCHANGED kwdVars
         /\ IF IdleAfterEnable(ok /\ KwdUp)
            THEN system_state' = "IDLE"
            ELSE UNCHANGED system_state
    /\ UNCHANGED <<stopping, listening, process, health_status, dialogVars,
                   setupVars, handlerVars, wstate, envVars, histVars, extVars>>

\* ------------------------------------------- managing the workers
\* the ServiceInfo of a worker together with its process
ServiceOf(s) ==
    [process |-> process[s], pid |-> pid[s], health_client |-> health_client[s],
     wstate |-> wstate[s], spawns |-> spawns[s]]

\* start_service(name): `return True` when the process is running; otherwise
\* Popen, pid and a new HealthClient; a missing script or an exception
\* returns False
StartReturns == TRUE
StartServiceOf(sv, popen_ok) ==
    IF sv.process /\ RunningWs(sv.wstate)
    THEN [service |-> sv, ok |-> StartReturns]
    ELSE IF ~popen_ok
    THEN [service |-> sv, ok |-> FALSE]
    ELSE [service |-> [process |-> TRUE, pid |-> sv.spawns + 1,
                       health_client |-> TRUE, wstate |-> "loading",
                       spawns |-> sv.spawns + 1],
          ok |-> TRUE]

\* stop_service(name): a running process is terminated (killed after 2 s)
\* and its handle and pid are cleared; the health client is closed
StopServiceOf(sv) ==
    [service |-> IF sv.process /\ RunningWs(sv.wstate)
                 THEN [sv EXCEPT !.process = FALSE, !.pid = 0, !.wstate = "off",
                                 !.health_client = FALSE]
                 ELSE [sv EXCEPT !.health_client = FALSE],
     ok |-> TRUE]

ApplyService(s, sv) ==
    /\ process' = [process EXCEPT ![s] = sv.process]
    /\ pid' = [pid EXCEPT ![s] = sv.pid]
    /\ health_client' = [health_client EXCEPT ![s] = sv.health_client]
    /\ wstate' = [wstate EXCEPT ![s] = sv.wstate]
    /\ spawns' = [spawns EXCEPT ![s] = sv.spawns]

\* the Status a management RPC returns
StatusOf(rpc, name, ok) ==
    [rpc |-> rpc, name |-> name, success |-> ok, code |-> IF ok THEN 0 ELSE 1]
UnknownService(rpc, name) ==
    [rpc |-> rpc, name |-> name, success |-> FALSE, code |-> 404]

\* the gRPC server of the orchestrator is started when setup() returned
Serving == spc = "ready" /\ ~stopping

\* LoaderServicer.StartService
StartServiceRpc(name) ==
    /\ Serving
    /\ IF name \notin Services
       THEN /\ reply' = UnknownService("StartService", name)
            /\ UNCHANGED <<process, pid, health_client, wstate, spawns>>
       ELSE \E popen_ok \in BOOLEAN :
              /\ popen_ok /\ ~Running(name) => spawns[name] < MaxSpawns
              /\ LET r == StartServiceOf(ServiceOf(name), popen_ok) IN
                    /\ ApplyService(name, r.service)
                    /\ reply' = StatusOf("StartService", name, r.ok)
    /\ UNCHANGED <<system_state, stopping, listening, health_status, dialogVars,
                   setupVars, handlerVars, timer_threads, kwdVars, envVars,
                   histVars, utterances, sttVars, streamVars, restart_count, exits, moreVars>>

\* LoaderServicer.StopService
StopServiceRpc(name) ==
    /\ Serving
    /\ IF name \notin Services
       THEN /\ reply' = UnknownService("StopService", name)
            /\ UNCHANGED <<process, pid, health_client, wstate, spawns>>
       ELSE LET r == StopServiceOf(ServiceOf(name)) IN
              /\ ApplyService(name, r.service)
              /\ reply' = StatusOf("StopService", name, r.ok)
    /\ UNCHANGED <<system_state, stopping, listening, health_status, dialogVars,
                   setupVars, handlerVars, timer_threads, kwdVars, envVars,
                   histVars, utterances, sttVars, streamVars, restart_count, exits, moreVars>>

\* LoaderServicer.GetStatus, service_health: the cached health_status of each
\* ServiceInfo by name, anything but SERVING and NOT_SERVING as UNKNOWN; no
\* probe is made and nothing is written
ServiceHealth ==
    [s \in Services |->
        IF health_status[s] = "SERVING" THEN "SERVING"
        ELSE IF health_status[s] = "NOT_SERVING" THEN "NOT_SERVING"
        ELSE "UNKNOWN"]

\* LoaderServicer.GetPids: `if service.pid`
GetPids == {s \in Services : pid[s] # 0}

\* a worker process exits on its own; the orchestrator holds its handle and
\* has no thread that polls it
WorkerExit(s) ==
    /\ Running(s)
    /\ exits < MaxExits
    /\ exits' = exits + 1
    /\ wstate' = [wstate EXCEPT ![s] = "crashed"]
    /\ kwd_enabled' = IF s = "kwd" THEN FALSE ELSE kwd_enabled
    /\ UNCHANGED <<loaderVars, dialogVars, setupVars, handlerVars, timer_threads,
                   kwd_threshold, kwd_cooldown_ms, last_detection_time, event_queue,
                   envVars, histVars, utterances, sttVars, streamVars, svcVars, reply, moreVars>>

\* SIGINT or SIGTERM delivered to the orchestrator: _signal_handler, which
\* returns at once when a shutdown has begun and otherwise ends the process
SignalHandler ==
    /\ spc # "exited"
    /\ ApplyShutdown(SignalOf(ShutdownState))
    /\ spc' = IF AlreadyStopping(stopping) THEN spc ELSE "exited"
    /\ UNCHANGED <<system_state, listening, health_status, current_dialog_id,
                   turn_number, dialog_active, svc, polls, handlerVars,
                   timer_threads, kwd_threshold, kwd_cooldown_ms,
                   last_detection_time, envVars, histVars, utterances, sttVars,
                   streamVars, opsVars, pbVars, logVars, cfgVars,
                   turnVars, restart_count, spawns>>

\* ------------------------------------------- the streamed completion
LlmChunk(text, eot) == [text |-> text, eot |-> eot]

\* the texts carried by a sequence of chunks, in order
RECURSIVE TextsOf(_)
TextsOf(chunks) ==
    IF chunks = <<>> THEN <<>>
    ELSE (IF Head(chunks).text # <<>> THEN <<Head(chunks).text>> ELSE <<>>)
         \o TextsOf(Tail(chunks))

\* ''.join(texts)
RECURSIVE Join(_)
Join(texts) == IF texts = <<>> THEN <<>> ELSE Head(texts) \o Join(Tail(texts))

\* KokoroTTS.synthesize(text): the audio of a text
Synthesize(text) == [samples |-> Len(text), of |-> text]

\* AudioStreamQueue.add_audio: queue.put(audio)
EnqueueFront(q, audio) == <<audio>> \o q
Enqueue(q, audio) == Append(q, audio)

\* M.Complete, stream_tokens: a chunk of Ollama with a non-empty `response`
\* is put on the response queue and yielded with eot = False
LlmYield ==
    /\ mpc = "streaming"
    /\ ollama # <<>>
    /\ ollama' = Tail(ollama)
    /\ IF Head(ollama) # <<>>
       THEN /\ llm_stream' = Append(llm_stream, LlmChunk(Head(ollama), FALSE))
            /\ llm_sent' = Append(llm_sent, LlmChunk(Head(ollama), FALSE))
       ELSE UNCHANGED <<llm_stream, llm_sent>>
    /\ UNCHANGED <<mpc, bpc, chunk_count, tts_stream, vpc, full_text, audio_queue>>
    /\ UNCHANGED <<loaderVars, dialogVars, setupVars, handlerVars, timer_threads,
                   wstate, kwdVars, envVars, histVars, utterances, sttVars, svcVars, opsVars, moreVars>>

\* M.Complete after the last Ollama chunk: the final EOT marker, or the
\* exception of the stream thread re-raised (the RPC ends with INTERNAL)
LlmFinish ==
    /\ mpc = "streaming"
    /\ ollama = <<>>
    /\ \E ok \in BOOLEAN :
         IF ok
         THEN /\ llm_stream' = Append(llm_stream, LlmChunk(<<>>, TRUE))
              /\ llm_sent' = Append(llm_sent, LlmChunk(<<>>, TRUE))
              /\ mpc' = "done"
         ELSE /\ mpc' = "failed"
              /\ UNCHANGED <<llm_stream, llm_sent>>
    /\ UNCHANGED <<ollama, bpc, chunk_count, tts_stream, vpc, full_text, audio_queue>>
    /\ UNCHANGED <<loaderVars, dialogVars, setupVars, handlerVars, timer_threads,
                   wstate, kwdVars, envVars, histVars, utterances, sttVars, svcVars, opsVars, moreVars>>

\* generate_tts_chunks, one iteration of `for llm_chunk in llm_stub.Complete`:
\* a text is forwarded with eot = False, an eot chunk becomes an empty EOT
\* marker and ends the loop; no text at all raises "Empty LLM response"
BridgeStep ==
    /\ bpc = "run"
    /\ llm_stream # <<>>
    /\ LET c == Head(llm_stream)
           count == IF c.text # <<>> THEN chunk_count + 1 ELSE chunk_count
       IN /\ llm_stream' = Tail(llm_stream)
          /\ chunk_count' = count
          /\ tts_stream' = tts_stream
                 \o (IF c.text # <<>> THEN <<LlmChunk(c.text, FALSE)>> ELSE <<>>)
                 \o (IF c.eot THEN <<LlmChunk(<<>>, TRUE)>> ELSE <<>>)
          /\ bpc' = IF ~c.eot THEN "run" ELSE IF count = 0 THEN "raised" ELSE "done"
    /\ UNCHANGED <<ollama, mpc, llm_sent, vpc, full_text, audio_queue>>
    /\ UNCHANGED <<loaderVars, dialogVars, setupVars, handlerVars, timer_threads,
                   wstate, kwdVars, envVars, histVars, utterances, sttVars, svcVars, opsVars, moreVars>>

\* generate_tts_chunks when M's stream ends with an error: the RpcError
\* leaves the generator
BridgeEnd ==
    /\ bpc = "run"
    /\ llm_stream = <<>>
    /\ mpc = "failed"
    /\ bpc' = "raised"
    /\ UNCHANGED <<ollama, mpc, llm_sent, llm_stream, chunk_count, tts_stream, vpc,
                   full_text, audio_queue>>
    /\ UNCHANGED <<loaderVars, dialogVars, setupVars, handlerVars, timer_threads,
                   wstate, kwdVars, envVars, histVars, utterances, sttVars, svcVars, opsVars, moreVars>>

\* V.SpeakStream, one iteration of `for chunk in request_iterator`: a text is
\* appended to full_text, synthesised and queued; eot ends the loop
TtsReceive ==
    /\ vpc = "recv"
    /\ tts_stream # <<>>
    /\ LET c == Head(tts_stream) IN
          /\ tts_stream' = Tail(tts_stream)
          /\ IF c.text # <<>>
             THEN /\ full_text' = Append(full_text, c.text)
                  /\ audio_queue' = Enqueue(audio_queue, Synthesize(c.text))
             ELSE UNCHANGED <<full_text, audio_queue>>
          /\ vpc' = IF c.eot THEN "finished" ELSE "recv"
    /\ UNCHANGED <<ollama, mpc, llm_sent, llm_stream, bpc, chunk_count>>
    /\ UNCHANGED <<loaderVars, dialogVars, setupVars, handlerVars, timer_threads,
                   wstate, kwdVars, envVars, histVars, utterances, sttVars, svcVars, opsVars, moreVars>>

\* V.SpeakStream when the request iterator raises: success = False
TtsAbort ==
    /\ vpc = "recv"
    /\ tts_stream = <<>>
    /\ bpc = "raised"
    /\ vpc' = "failed"
    /\ UNCHANGED <<ollama, mpc, llm_sent, llm_stream, bpc, chunk_count, tts_stream,
                   full_text, audio_queue>>
    /\ UNCHANGED <<loaderVars, dialogVars, setupVars, handlerVars, timer_threads,
                   wstate, kwdVars, envVars, histVars, utterances, sttVars, svcVars, opsVars, moreVars>>

\* what tts_stub.SpeakStream(generate_tts_chunks()) can give the orchestrator.
\* An exception leaving the request generator makes the client cancel the
\* call, which then raises grpc.RpcError; the generator raises "Empty LLM
\* response" only after it has yielded the EOT marker, on which V leaves its
\* loop and answers success = True, so that answer may be in before the cancel
StreamOutcomes ==
    IF bpc = "raised"
    THEN {"rpc_error"} \cup (IF vpc = "finished" THEN {"ok"} ELSE {})
    ELSE IF bpc = "done" /\ vpc = "finished" THEN {"ok"} ELSE {}

\* process_user_input after the call: `if tts_response.success:` the follow-up
\* timer is started and then the monitor thread; `except grpc.RpcError` goes
\* to play_error_prompt("llm_error")
SpeakStreamReturn ==
    /\ stream_result = "none"
    /\ \E r \in StreamOutcomes :
         /\ stream_result' = r
         /\ IF r = "ok"
            THEN /\ follow_up_timer' = "pending"
                 /\ monitor' = "started"
            ELSE UNCHANGED <<follow_up_timer, monitor>>
    /\ UNCHANGED <<current_dialog_id, turn_number, dialog_active>>
    /\ UNCHANGED <<loaderVars, setupVars, handlerVars, timer_threads, wstate, kwdVars,
                   envVars, histVars, utterances, sttVars, streamVars, svcVars,
                   opsVars, pbVars, logVars, cfgVars, shutVars>>

\* monitor_events, the thread of monitor_playback_completion: it reads
\* tts_stub.PlaybackEvents up to "finished" and logs it, or logs an exception
MonitorEvents ==
    /\ monitor = "started"
    /\ \E seen \in {"finished", "error"} : monitor' = seen
    /\ UNCHANGED stream_result
    /\ UNCHANGED <<coreVars, sttVars, streamVars, pbVars, logVars, cfgVars, shutVars>>

\* ------------------------------------------- V's playback events
PlaybackEvent(type, r) == [type |-> type, req |-> r]

\* TTSServicer.Speak, accepted: under events_lock the queue of the dialog is
\* created when absent and "started" is put; the finish_event thread starts
Speak ==
    /\ pb_calls < MaxSpeaks
    /\ pb_calls' = pb_calls + 1
    /\ pb_present' = TRUE
    /\ pb_queue' = Append(pb_queue, PlaybackEvent("started", pb_calls + 1))
    /\ pb_threads' = pb_threads \cup {pb_calls + 1}
    /\ UNCHANGED <<pb_stream, pb_terminal, sub, sub_for, sub_last>>
    /\ UNCHANGED <<coreVars, sttVars, streamVars, logVars, cfgVars, shutVars, turnVars>>

\* the finish_event thread after its sleep:
\* `self.playback_events[dialog_id].put(finished)`; when the queue was
\* deleted meanwhile the lookup raises KeyError and the thread ends
FinishEvent(r) ==
    /\ r \in pb_threads
    /\ pb_threads' = pb_threads \ {r}
    /\ IF pb_present
       THEN /\ pb_queue' = Append(pb_queue, PlaybackEvent("finished", r))
            /\ pb_terminal' = [pb_terminal EXCEPT ![r] = @ + 1]
       ELSE UNCHANGED <<pb_queue, pb_terminal>>
    /\ UNCHANGED <<pb_present, pb_calls, pb_stream, sub, sub_for, sub_last>>
    /\ UNCHANGED <<coreVars, sttVars, streamVars, logVars, cfgVars, shutVars, turnVars>>

\* TTSServicer.SpeakStream is entered
SpeakStreamBegin ==
    /\ pb_calls < MaxSpeaks
    /\ pb_stream = 0
    /\ pb_calls' = pb_calls + 1
    /\ pb_stream' = pb_calls + 1
    /\ UNCHANGED <<pb_present, pb_queue, pb_threads, pb_terminal, sub, sub_for,
                   sub_last>>
    /\ UNCHANGED <<coreVars, sttVars, streamVars, logVars, cfgVars, shutVars, turnVars>>

\* SpeakStream, a chunk with text: under events_lock the queue is created
\* when absent and "chunk_played" is put
SpeakStreamChunk ==
    /\ pb_stream # 0
    /\ Len(pb_queue) < 2 * MaxSpeaks + 1
    /\ pb_present' = TRUE
    /\ pb_queue' = Append(pb_queue, PlaybackEvent("chunk_played", pb_stream))
    /\ UNCHANGED <<pb_calls, pb_threads, pb_stream, pb_terminal, sub, sub_for,
                   sub_last>>
    /\ UNCHANGED <<coreVars, sttVars, streamVars, logVars, cfgVars, shutVars, turnVars>>

\* SpeakStream after its loop: "finished" is put only
\* `if dialog_id and dialog_id in self.playback_events`; success is returned
SpeakStreamEnd ==
    /\ pb_stream # 0
    /\ pb_stream' = 0
    /\ IF pb_present
       THEN /\ pb_queue' = Append(pb_queue, PlaybackEvent("finished", pb_stream))
            /\ pb_terminal' = [pb_terminal EXCEPT ![pb_stream] = @ + 1]
       ELSE UNCHANGED <<pb_queue, pb_terminal>>
    /\ UNCHANGED <<pb_present, pb_calls, pb_threads, sub, sub_for, sub_last>>
    /\ UNCHANGED <<coreVars, sttVars, streamVars, logVars, cfgVars, shutVars, turnVars>>

\* TTSServicer.PlaybackEvents is entered for the playback request r, the
\* last one accepted or the one about to be made: the queue is created when
\* absent
Subscribe(r) ==
    /\ sub = "none"
    /\ r \in {pb_calls, pb_calls + 1} \cap (1 .. MaxSpeaks)
    /\ sub' = "open"
    /\ sub_for' = r
    /\ pb_present' = TRUE
    /\ UNCHANGED <<pb_queue, pb_calls, pb_threads, pb_stream, pb_terminal, sub_last>>
    /\ UNCHANGED <<coreVars, sttVars, streamVars, logVars, cfgVars, shutVars, turnVars>>

\* PlaybackEvents, one event_queue.get: the event is yielded; after
\* "finished" the loop breaks and the finally clause deletes the queue of
\* the dialog with whatever it still holds
SubscriptionGet ==
    /\ sub = "open"
    /\ pb_queue # <<>>
    /\ IF Head(pb_queue).type = "finished"
       THEN /\ sub' = "closed"
            /\ sub_last' = Head(pb_queue).req
            /\ pb_present' = FALSE
            /\ pb_queue' = <<>>
       ELSE /\ pb_queue' = Tail(pb_queue)
            /\ UNCHANGED <<sub, sub_last, pb_present>>
    /\ UNCHANGED <<pb_calls, pb_threads, pb_stream, pb_terminal, sub_for>>
    /\ UNCHANGED <<coreVars, sttVars, streamVars, logVars, cfgVars, shutVars, turnVars>>

\* ------------------------------------------------------- ConfigLoader
\* `if port < 5001 or port > 5006: raise ValueError`
PortInRangeFrom(port) == ~(port < PortMin)
PortInRange(port) == ~(port < PortMin \/ port > PortMax)

\* _validate, the loop over the services from the i-th on, ports being the
\* set of the ports seen so far: FALSE where the code raises
RECURSIVE ValidatePorts(_, _, _)
ValidatePorts(c, i, ports) ==
    IF i > Len(PortServices) THEN TRUE
    ELSE LET port == c.port[PortServices[i]] IN
         IF ~PortInRange(port) THEN FALSE
         ELSE IF port \in ports THEN FALSE
         ELSE ValidatePorts(c, i + 1, ports \cup {port})

\* ConfigLoader._validate: FALSE where it raises
Validate(c) ==
    IF \E section \in RequiredSections : section \notin c.sections THEN FALSE
    ELSE IF c.min_vram_mb < MinVramConfig THEN FALSE
    ELSE ValidatePorts(c, 1, {})

\* LoaderService.__init__ -> BaseService.__init__ -> ConfigLoader(config_path):
\* an exception of _validate ends the process before setup() is called
LoadConfig ==
    /\ cfg_verdict = "unread"
    /\ cfg_verdict' = IF Validate(cfg) THEN "accepted" ELSE "rejected"
    /\ UNCHANGED cfg
    /\ UNCHANGED <<coreVars, sttVars, streamVars, pbVars, logVars, shutVars, turnVars>>

\* ------------------------------------------------------- LogManager
\* LoggerServicer.NewDialog, new_dialog(timestamp_ms): under the lock the
\* file named after the id is opened with mode 'w' and its header written
NewDialog(timestamp_ms) ==
    /\ Len(new_dialogs) < MaxNewDialogs
    /\ log_lock = 0
    /\ LET dialog_id == DialogIdOf(timestamp_ms) IN
          /\ new_dialogs' = Append(new_dialogs, dialog_id)
          /\ dialog_files' = [dialog_files EXCEPT ![dialog_id] = 0]
    /\ UNCHANGED <<dialog_written, log_lock, wa_pc, app_size, backups>>
    /\ UNCHANGED <<coreVars, sttVars, streamVars, pbVars, cfgVars, shutVars, turnVars>>

\* LoggerServicer.WriteDialog for an id new_dialog returned: under the lock
\* the turn is appended to the file of the id
WriteDialog(dialog_id) ==
    /\ dialog_files[dialog_id] # -1
    /\ dialog_written[dialog_id] < MaxLines
    /\ log_lock = 0
    /\ dialog_files' = [dialog_files EXCEPT ![dialog_id] = @ + 1]
    /\ dialog_written' = [dialog_written EXCEPT ![dialog_id] = @ + 1]
    /\ UNCHANGED <<new_dialogs, log_lock, wa_pc, app_size, backups>>
    /\ UNCHANGED <<coreVars, sttVars, streamVars, pbVars, cfgVars, shutVars, turnVars>>

\* the holder of the lock when it is a write_dialog_log call
WriteDialogCall == MaxWrites + 1

\* LoggerServicer.WriteDialog for an id that has no file: write_dialog_log
\* takes the lock and, holding it, calls new_dialog, whose `with self.lock`
\* waits for the same threading.Lock: the call never returns
WriteDialogCreate(dialog_id) ==
    /\ dialog_files[dialog_id] = -1
    /\ log_lock = 0
    /\ log_lock' = WriteDialogCall
    /\ UNCHANGED <<new_dialogs, dialog_files, dialog_written, wa_pc, app_size, backups>>
    /\ UNCHANGED <<coreVars, sttVars, streamVars, pbVars, cfgVars, shutVars, turnVars>>

\* write_app_log, `with self.lock` and the append of the entry
WriteAppAppend(c) ==
    /\ wa_pc[c] = "new"
    /\ log_lock = 0
    /\ log_lock' = c
    /\ app_size' = app_size + 1
    /\ wa_pc' = [wa_pc EXCEPT ![c] = "check"]
    /\ UNCHANGED <<new_dialogs, dialog_files, dialog_written, backups>>
    /\ UNCHANGED <<coreVars, sttVars, streamVars, pbVars, cfgVars, shutVars, turnVars>>

\* write_app_log, the rotation check made with the lock held: over the
\* size _reset_app_log is called, else the lock is released and True returned
WriteAppCheck(c) ==
    /\ wa_pc[c] = "check"
    /\ IF app_size > RotationEntries
       THEN /\ wa_pc' = [wa_pc EXCEPT ![c] = "reset"]
            /\ UNCHANGED log_lock
       ELSE /\ wa_pc' = [wa_pc EXCEPT ![c] = "returned"]
            /\ log_lock' = 0
    /\ UNCHANGED <<new_dialogs, dialog_files, dialog_written, app_size, backups>>
    /\ UNCHANGED <<coreVars, sttVars, streamVars, pbVars, cfgVars, shutVars, turnVars>>

\* _cleanup_old_logs: at most rotation_count backups are kept
CleanupOldLogs(n) == IF n > RotationCount THEN RotationCount ELSE n

\* _reset_app_log called by write_app_log: `with self.lock` on a
\* threading.Lock waits while the lock is held, by whomever; with the lock
\* the log is renamed to a backup, old backups are removed and a new log is
\* created; back in write_app_log the lock is released and True returned
ResetAppLog(c) ==
    /\ wa_pc[c] = "reset"
    /\ IF log_lock = 0
       THEN /\ backups' = CleanupOldLogs(backups + 1)
            /\ app_size' = 0
            /\ wa_pc' = [wa_pc EXCEPT ![c] = "returned"]
            /\ UNCHANGED log_lock
       ELSE UNCHANGED <<backups, app_size, wa_pc, log_lock>>
    /\ UNCHANGED <<new_dialogs, dialog_files, dialog_written>>
    /\ UNCHANGED <<coreVars, sttVars, streamVars, pbVars, cfgVars, shutVars, turnVars>>

\* ------------------------------------------------------- the user speaking
\* the user speaks again while the follow-up timer is armed. process_user_input
\* stopped S before the reply, and handle_follow_up_speech, the only code that
\* would cancel the timer, increment_turn() and call stt_stub.Start, has no
\* call site: no thread of the orchestrator reacts to the utterance
FollowUpUtterance ==
    /\ follow_up_timer = "pending"
    /\ utterances < MaxUtterances
    /\ utterances' = utterances + 1
    /\ UNCHANGED <<loaderVars, dialogVars, setupVars, handlerVars, timer_threads,
                   wstate, kwdVars, envVars, histVars, sttVars, streamVars,
                   svcVars, opsVars, moreVars>>

\* ---------------------------------------------------------------- Next
Next ==
    \/ SetupOllama
    \/ SetupPreload
    \/ SetupSpawn
    \/ SetupPoll
    \/ SetupWriteApp
    \/ SetupWarmup
    \/ SetupListeners
    \/ SetupIdle
    \/ \E s \in Services : WorkerStart(s)
    \/ KwdDetect
    \/ KwdConfigure
    \/ KwdStart
    \/ Tick
    \/ DeliverWakeEvent
    \/ \E h \in Handlers : HandleWakeCheck(h)
    \/ \E h \in Handlers : HandleWakeSetDialog(h)
    \/ \E h \in Handlers : HandleWakeNewDialog(h)
    \/ \E h \in Handlers : HandleWakeDisable(h)
    \/ \E h \in Handlers : HandleWakeSpeak(h)
    \/ \E h \in Handlers : HandleWakeSttStart(h)
    \/ \E h \in Handlers : ListenSttResults(h)
    \/ \E h \in Handlers : ProcessStop(h)
    \/ \E h \in Handlers : ProcessStream(h)
    \/ \E h \in Handlers : PlayErrorPrompt(h)
    \/ \E h \in Handlers : ForceEnable(h)
    \/ TimerFire
    \/ TimerEnable

\* the platform on a machine whose free accelerator memory is at or above the
\* floor; the orchestrator itself never reads the measurement
InitFloor == Init /\ vram_free_mb >= MinVramMb

Spec == InitFloor /\ [][Next]_vars

\* startup alone (setup() and the workers coming up), with any amount of free
\* accelerator memory
NextBoot ==
    \/ SetupOllama
    \/ SetupPreload
    \/ SetupSpawn
    \/ SetupPoll
    \/ SetupWriteApp
    \/ SetupWarmup
    \/ SetupListeners
    \/ SetupIdle
    \/ \E s \in Services : WorkerStart(s)

SpecBoot == Init /\ [][NextBoot]_vars

\* startup followed by the management of the workers: the StartService and
\* StopService RPCs, workers exiting on their own, signals
NextOps ==
    \/ NextBoot
    \/ \E name \in RpcNames : StartServiceRpc(name)
    \/ \E name \in RpcNames : StopServiceRpc(name)
    \/ \E s \in Services : WorkerExit(s)
    \/ SignalHandler

SpecOps == InitFloor /\ [][NextOps]_vars

\* the same, with the thread running setup() and the workers that are coming
\* up always making progress; requests, exits and signals may never come
SpecOpsFair == SpecOps /\ WF_vars(NextBoot)

\* startup followed by the stop operations: W.Stop, S.Stop and the shutdown
\* of the orchestrator
NextStop ==
    \/ NextBoot
    \/ SignalHandler
    \/ KwdStart
    \/ KwdStop
    \/ \E d \in SttDialogs : SttStart(d)
    \/ \E d \in SttDialogs : SttProcess(d)
    \/ \E d \in SttDialogs : SttStop(d)

SpecStop == InitFloor /\ [][NextStop]_vars

\* the platform with the wake handlers of two events running at once
NextThreads ==
    \/ SetupOllama
    \/ SetupPreload
    \/ SetupSpawn
    \/ SetupPoll
    \/ SetupWriteApp
    \/ SetupWarmup
    \/ SetupListeners
    \/ SetupIdle
    \/ \E s \in Services : WorkerStart(s)
    \/ KwdDetect
    \/ KwdConfigure
    \/ KwdStart
    \/ Tick
    \/ DeliverWakeEventPool
    \/ \E h \in HandlerPool : HandleWakeCheck(h)
    \/ \E h \in HandlerPool : HandleWakeSetDialog(h)
    \/ \E h \in HandlerPool : HandleWakeNewDialog(h)
    \/ \E h \in HandlerPool : HandleWakeDisable(h)
    \/ \E h \in HandlerPool : HandleWakeSpeak(h)
    \/ \E h \in HandlerPool : HandleWakeSttStart(h)
    \/ \E h \in HandlerPool : ListenSttResults(h)
    \/ \E h \in HandlerPool : ProcessStop(h)
    \/ \E h \in HandlerPool : ProcessStream(h)
    \/ \E h \in HandlerPool : PlayErrorPrompt(h)
    \/ \E h \in HandlerPool : ForceEnable(h)
    \/ TimerFire
    \/ TimerEnable

SpecThreads == InitFloor /\ [][NextThreads]_vars

\* the steps the orchestrator takes by itself once it can: every step of a
\* wake handler but the wait for S's final result, and the Timer thread
OrchestratorSteps ==
    \/ \E h \in Handlers : HandleWakeCheck(h)
    \/ \E h \in Handlers : HandleWakeSetDialog(h)
    \/ \E h \in Handlers : HandleWakeNewDialog(h)
    \/ \E h \in Handlers : HandleWakeDisable(h)
    \/ \E h \in Handlers : HandleWakeSpeak(h)
    \/ \E h \in Handlers : HandleWakeSttStart(h)
    \/ \E h \in Handlers : ProcessStop(h)
    \/ \E h \in Handlers : ProcessStream(h)
    \/ \E h \in Handlers : PlayErrorPrompt(h)
    \/ \E h \in Handlers : ForceEnable(h)
    \/ TimerFire
    \/ TimerEnable

\* the platform with an orchestrator that never pauses of itself; whether
\* and when S delivers a final result is left open
SpecListenFair == Spec /\ WF_vars(OrchestratorSteps)

\* startup, and a termination signal at any moment of it or after it
NextShutdown ==
    \/ NextBoot
    \/ SignalHandler

SpecShutdown == Init /\ [][NextShutdown]_vars

\* S serving Start, Stop and Results while its processing loop runs
NextResults ==
    \/ NextBoot
    \/ \E d \in SttDialogs : SttStart(d)
    \/ \E d \in SttDialogs : SttProcess(d)
    \/ \E d \in SttDialogs : SttStop(d)
    \/ \E d \in SttDialogs : ResultsOpen(d)
    \/ \E d \in SttDialogs : ResultsGet(d)
    \/ \E d \in SttDialogs : ResultsTimeout(d)

SpecResults == Init /\ [][NextResults]_vars

\* the orchestrator from process start: the configuration is loaded, then
\* setup() runs
InitConfig ==
    /\ InitLoader
    /\ InitWorkers
    /\ InitHistory
    /\ now = ClockStartMs
    /\ vram_free_mb = MinVramMb
    /\ utterances = 0
    /\ InitStreamIdle
    /\ InitServices
    /\ InitPlayback
    /\ InitLogManager
    /\ InitShutdown
    /\ InitTurn
    /\ cfg \in Configs
    /\ cfg_verdict = "unread"

ConfigBoot == cfg_verdict = "accepted" /\ NextBoot

NextConfig ==
    \/ LoadConfig
    \/ ConfigBoot

SpecConfig == InitConfig /\ [][NextConfig]_vars

\* the log sink serving NewDialog, WriteDialog and WriteApp
NextLogger ==
    \/ \E t \in DialogTimestamps : NewDialog(t)
    \/ \E id \in DialogIds : WriteDialog(id)
    \/ \E id \in DialogIds : WriteDialogCreate(id)
    \/ \E c \in WriteCalls : WriteAppAppend(c)
    \/ \E c \in WriteCalls : WriteAppCheck(c)
    \/ \E c \in WriteCalls : ResetAppLog(c)

SpecLogger == InitFloor /\ [][NextLogger]_vars
\* every call that can take a step takes it
SpecLoggerFair == SpecLogger /\ WF_vars(NextLogger)

\* V serving Speak, SpeakStream and PlaybackEvents for one dialog id
NextPlayback ==
    \/ Speak
    \/ \E r \in 1 .. MaxSpeaks : FinishEvent(r)
    \/ SpeakStreamBegin
    \/ SpeakStreamChunk
    \/ SpeakStreamEnd
    \/ \E r \in 1 .. MaxSpeaks : Subscribe(r)
    \/ SubscriptionGet

SpecPlayback == InitFloor /\ [][NextPlayback]_vars

\* the dialog loop with a user who speaks again inside the follow-up window
NextFollowUp ==
    \/ Next
    \/ FollowUpUtterance

SpecFollowUp == InitFloor /\ [][NextFollowUp]_vars

\* one completion streamed from M to V through generate_tts_chunks, for every
\* stream of Ollama tokens up to MaxTokens
InitStream ==
    /\ InitLoader
    /\ InitWorkers
    /\ InitHistory
    /\ now = ClockStartMs
    /\ vram_free_mb = MinVramMb
    /\ utterances = 0
    /\ InitServices
    /\ InitMore
    /\ ollama \in TokenSeqs
    /\ mpc = "streaming"
    /\ llm_sent = <<>>
    /\ llm_stream = <<>>
    /\ bpc = "run"
    /\ chunk_count = 0
    /\ tts_stream = <<>>
    /\ vpc = "recv"
    /\ full_text = <<>>
    /\ audio_queue = <<>>

NextStream ==
    \/ LlmYield
    \/ LlmFinish
    \/ BridgeStep
    \/ BridgeEnd
    \/ TtsReceive
    \/ TtsAbort
    \/ SpeakStreamReturn
    \/ MonitorEvents

SpecStream == InitStream /\ [][NextStream]_vars

\* the platform with the termination signal: once _signal_handler has called
\* sys.exit(0) nothing of the orchestrator runs
WhileRunning == spc # "exited" /\ Next

NextSignal ==
    \/ WhileRunning
    \/ SignalHandler

SpecSignal == Init /\ [][NextSignal]_vars

\* ================================================================ claims
\* no wake handler and no Timer thread is running
Quiescent ==
    /\ \A h \in Handlers : hpc[h] \in {"free", "done"}
    /\ timer_threads = 0

\* C1 (D1): at most one Dialog is active: whenever a wake handler has passed
\* the IDLE check and calls start_dialog, no Dialog is active, i.e. the
\* Dialog started before it has ended.
D1_AtMostOneDialog ==
    [][\A h \in Handlers :
          (hpc[h] = "new_dialog" /\ hpc'[h] = "disable") => ~dialog_active]_vars

\* C2 (D3): once a handler has finished and no handler or Timer thread is
\* running, SystemState is DIALOG exactly when an active Dialog with a dialog
\* id exists.
D3_DialogIffActive ==
    (Quiescent /\ \E h \in Handlers : hpc[h] = "done")
        => (system_state = "DIALOG"
               <=> (dialog_active /\ current_dialog_id # NoDialog))

\* C3 (H1): SystemState is IDLE only if every required worker was observed
\* SERVING by a readiness probe at least once, whichever assignment of IDLE
\* (setup, follow-up timeout, wake-handler error path) produced it.
H1_IdleOnlyAfterAllServing ==
    system_state = "IDLE" => \A s \in Services : s \in seen_serving

\* IDLE as assigned by the error path of handle_wake_event: the Dialog that
\* handler started is still active
H1_Witness ==
    /\ system_state = "IDLE"
    /\ dialog_active
    /\ seen_serving = Services

\* C4 (G1): when the free accelerator memory measured at startup is below
\* min_vram_mb, the orchestrator never reaches IDLE (startup that completes
\* ends in ERROR).
G1_GuardrailBlocksIdle ==
    vram_free_mb < MinVramMb
        => /\ system_state # "IDLE"
           /\ (spc \in {"ready", "failed"} => system_state = "ERROR")

\* the terminal outcomes the turn of handler h has had so far
Outcomes(h) == hlog[h].stream_ok + Len(hlog[h].played)

NoDialogBelowThreshold ==
    \A h \in Handlers : hlog[h].created => ~hlog[h].below

\* wake events W has emitted that are queued, being handled, or were the
\* last to create a Dialog
InFlight == event_queue \o [h \in 1 .. NumHandlers |-> hev[h]] \o <<last_accepted>>

\* two events are at least the cooldown apart that was in force when W
\* examined the later one
CooldownApart(a, b) ==
    IF a.timestamp_ms >= b.timestamp_ms
    THEN a.timestamp_ms - b.timestamp_ms >= a.cooldown
    ELSE b.timestamp_ms - a.timestamp_ms >= b.cooldown

RejectHasNoEffect ==
    [][\A h \in Handlers :
          (hpc[h] = "check" /\ hpc'[h] # "check" /\ system_state # "IDLE")
              => /\ hpc'[h] = "done"
                 /\ hlog'[h].calls = {}
                 /\ UNCHANGED <<system_state, current_dialog_id, turn_number,
                                dialog_active, follow_up_timer>>]_vars

\* an event rejected while a Dialog is in progress
Reject_Witness ==
    \E h \in Handlers :
        /\ hpc[h] = "done"
        /\ hlog[h].rejected
        /\ hlog[h].calls = {}
        /\ system_state = "DIALOG"

TimeoutReturnsToIdle ==
    [][timer_threads' < timer_threads
          => /\ system_state' = "IDLE"
             /\ ~dialog_active'
             /\ kwd_enabled']_vars

\* C11: a follow-up utterance spoken while the follow-up timer is armed
\* extends the same Dialog: in the step of the utterance the timer is
\* cancelled, the dialog id is kept and the turn number grows by exactly one.
FollowUpExtendsDialog ==
    [][utterances' # utterances
          => /\ follow_up_timer' = "None"
             /\ current_dialog_id' = current_dialog_id
             /\ current_dialog_id # NoDialog
             /\ turn_number' = turn_number + 1]_vars

\* C12: the streaming bridge delivers every text: the texts V has synthesised,
\* followed by those still on their way to V and to the orchestrator, are the
\* texts M emitted, in M's order; when V has seen the end of the stream its
\* texts and their concatenation equal M's; V's audio queue holds the audio
\* of its texts in arrival order.
StreamRoundTrip ==
    /\ full_text \o TextsOf(tts_stream) \o TextsOf(llm_stream) = TextsOf(llm_sent)
    /\ vpc = "finished" => /\ full_text = TextsOf(llm_sent)
                            /\ Join(full_text) = Join(TextsOf(llm_sent))
    /\ audio_queue = [i \in 1 .. Len(full_text) |-> Synthesize(full_text[i])]

\* V has seen the end of a stream of at least two different texts
StreamRoundTrip_Witness ==
    /\ vpc = "finished"
    /\ Len(full_text) >= 2
    /\ full_text[1] # full_text[2]
    /\ Len(audio_queue) = Len(full_text)

HealthRank(status) ==
    IF status = "UNKNOWN" THEN 0 ELSE IF status = "NOT_SERVING" THEN 1 ELSE 2

\* C14: health monotonicity during boot: until IDLE is declared the cached
\* health state of a worker never steps back from NOT_SERVING to UNKNOWN nor
\* from SERVING to another state.
HealthMonotoneDuringBoot ==
    [][system_state = "INITIALIZING"
          => \A s \in Services :
                HealthRank(health_status'[s]) >= HealthRank(health_status[s])]_vars

\* C15: a worker whose process exits unexpectedly while the system is IDLE
\* is restarted by the orchestrator and eventually serves again.
CrashedWorkerRecovers ==
    \A s \in Services :
        (system_state = "IDLE" /\ process[s] /\ wstate[s] = "crashed")
            ~> (wstate[s] = "serving")

\* a worker has been restarted as often as processes were spawned for it
\* after the first
Restarts(s) == IF spawns[s] = 0 THEN 0 ELSE spawns[s] - 1

\* C16: restart budget: no worker is restarted more than 3 times, and a
\* worker that fails after its third restart puts the system in ERROR with
\* the shutdown begun.
RestartBudget ==
    \A s \in Services :
        /\ Restarts(s) <= 3
        /\ (Restarts(s) = 3 /\ process[s] /\ wstate[s] = "crashed")
               => (system_state = "ERROR" /\ stopping)

FailedStartupStops ==
    spc = "failed"
        => /\ system_state = "ERROR"
           /\ ~listening
           /\ \A s \in Services : wstate[s] \notin {"loading", "bound", "serving"}

\* the readiness wait of a worker timed out after earlier workers had been
\* started, and those were killed
FailedStartup_Witness ==
    /\ spc = "failed"
    /\ polls >= MaxPolls
    /\ wstate[StartOrder[svc]] = "off"
    /\ \E s \in seen_serving : spawns[s] > 0 /\ wstate[s] = "off" /\ ~process[s]

\* C19: a StartService request for a worker whose process is running is
\* answered with a failure, and it leaves the process, the handle, the pid
\* and the health client of that worker as they were.
StartOfRunningFails ==
    [][\A name \in Services :
          (/\ reply' # reply
           /\ reply'.rpc = "StartService"
           /\ reply'.name = name
           /\ Running(name))
              => /\ ~reply'.success
                 /\ UNCHANGED <<process, pid, health_client, wstate, spawns>>]_vars

\* C20: while the orchestrator serves requests, GetPids names a worker if
\* and only if the process of that worker is running.
GetPidsOnlyRunning ==
    Serving => \A s \in Services : s \in GetPids <=> Running(s)

\* C21: every accepted Speak or SpeakStream call whose work is over has put
\* exactly one terminal playback event, and a PlaybackEvents subscription
\* that has closed delivered the finished event of the playback request it
\* was opened for.
PlaybackTerminalOnce ==
    /\ \A r \in 1 .. pb_calls :
          (r \notin pb_threads /\ pb_stream # r) => pb_terminal[r] = 1
    /\ sub = "closed" => sub_last = sub_for

\* C22: a session that has finalized produces no further final result for
\* as long as it stays active: between a Start and the matching Stop at most
\* one final result is put for the dialog.
OneFinalPerSession ==
    [][\A d \in SttDialogs :
          stt_sessions[d] = "finalized" => stt_finals'[d] = stt_finals[d]]_vars

\* C23: a forced Stop on a session that has not finalized, with a Results
\* stream open for the dialog, delivers its final result to that stream,
\* which ends.
ForcedStopDelivers ==
    [][\A d \in SttDialogs :
          (/\ stt_sessions[d] = "active"
           /\ stt_sessions'[d] = "none"
           /\ res_sub[d] \in {"idle", "blocked"})
          => res_sub'[d] = "ended"]_vars

\* C24: any two NewDialog calls of one log-sink process return different
\* ids, and every transcript file holds all the turns written to it: no
\* later NewDialog truncated it.
DialogIdsUnique ==
    /\ \A i, j \in DOMAIN new_dialogs : i # j => new_dialogs[i] # new_dialogs[j]
    /\ \A id \in DialogIds :
          dialog_files[id] # -1 => dialog_files[id] = dialog_written[id]

\* C25: a WriteApp call that has appended its entry returns, rotation
\* included.
RotationCompletes ==
    \A c \in WriteCalls : (wa_pc[c] = "check") ~> (wa_pc[c] = "returned")

\* C26: a configuration is accepted exactly when all seven sections are
\* present, min_vram_mb is at least 8000 and the six ports are pairwise
\* distinct and each within [5001, 5006]; any other configuration is rejected
\* and no worker is spawned for it, nor before the configuration is read.
ConfigValidation ==
    LET good ==
          /\ {"system", "loader", "logger", "kwd", "stt", "llm", "tts"} \subseteq cfg.sections
          /\ cfg.min_vram_mb >= 8000
          /\ \A s, t \in PortServiceSet : s # t => cfg.port[s] # cfg.port[t]
          /\ \A s \in PortServiceSet : cfg.port[s] \in 5001 .. 5006
    IN /\ cfg_verdict = "accepted" => good
       /\ cfg_verdict = "rejected" => ~good
       /\ cfg_verdict # "accepted" => \A s \in Services : spawns[s] = 0 /\ ~process[s]

\* a configuration with two ports exchanged was accepted and a worker spawned
ConfigValidation_Witness ==
    /\ cfg_verdict = "accepted"
    /\ cfg.port # DefaultPorts
    /\ \E s \in Services : spawns[s] > 0

\* the place of worker s in the startup order
StartPlace(s) == CHOOSE i \in DOMAIN StartOrder : StartOrder[i] = s

\* C27: once a shutdown has run, on a signal or on a fatal startup error,
\* the workers were killed in reverse startup order, the external LLM
\* runtime is released and no worker started by the orchestrator is running.
ShutdownInReverseOrder ==
    stopping =>
        /\ \A i, j \in DOMAIN kill_order :
              i < j => StartPlace(kill_order[i]) > StartPlace(kill_order[j])
        /\ ~ollama_up
        /\ \A s \in Services : ~(process[s] /\ RunningWs(wstate[s]))

\* handler h has read SystemState = IDLE and not yet written SystemState and
\* the Dialog
InCritical(h) == hpc[h] \in {"set_dialog", "new_dialog", "disable"}

\* C28: SystemState and the Dialog are never read-modified-written by two
\* threads at once: at most one wake handler is between its IDLE check and
\* its start_dialog or one Timer thread between its end_dialog and its IDLE.
OneWriterAtATime ==
    Cardinality({h \in HandlerPool : InCritical(h)}) + timer_threads <= 1

\* handler h has disabled W for the Dialog it created and is in its turn
MidDialog(h) ==
    hpc[h] \notin {"free", "check", "set_dialog", "new_dialog", "disable", "done"}

\* C29: W stays disabled for the whole Dialog: after the orchestrator has
\* disabled W for a Dialog, no step of any component enables W for as long
\* as that Dialog stays active.
KwdDisabledDuringDialog ==
    [][((\E h \in Handlers : MidDialog(h))
          /\ dialog_active /\ ~kwd_enabled /\ dialog_active')
       => ~kwd_enabled']_vars

\* C30: every listening phase ends: a handler waiting for the final result
\* of its turn leaves that wait, whether or not S delivers a result.
ListeningEnds ==
    \A h \in Handlers : (hpc[h] = "results") ~> (hpc[h] # "results")

\* M's stream of the turn ended with eot = true and carried no text
EmptyTurn ==
    /\ llm_sent # <<>>
    /\ llm_sent[Len(llm_sent)].eot
    /\ TextsOf(llm_sent) = <<>>

\* C31: when M's stream ends with eot = true without any text, the turn is not
\* recorded as a successful SpeakStream (no timer armed as for a spoken
\* answer): the orchestrator goes to the apology for an LLM failure
EmptyStreamIsFailure ==
    (EmptyTurn /\ stream_result # "none") =>
        (stream_result = "rpc_error" /\ monitor = "none")

\* C33: the follow-up timer of a successful turn is running only once V's
\* finished event of the turn has been observed
TimerAfterFinished ==
    (stream_result = "ok" /\ follow_up_timer = "pending") => monitor = "finished"

\* C32: when V.SpeakStream answered success = false or raised an RPC error and
\* the apology Speak failed as well, on_follow_up_timeout has ended the Dialog
\* and the system is IDLE as soon as the handler has left it
FailedApologyEndsDialog ==
    \A h \in Handlers :
        ( /\ "SpeakStream" \in hlog[h].calls
          /\ hsite[h] \in {620, 624}
          /\ hlog[h].forced > 0
          /\ hpc[h] # "force_enable" )
        => (~dialog_active /\ system_state = "IDLE")

\* C34: every RPC failure during a Dialog leads to an apology with the
\* follow-up timer armed or to the end of the Dialog: with no handler and no
\* Timer thread running, a Dialog that is still open, or a system still in
\* DIALOG, has its follow-up timer armed
DialogNeverStranded ==
    (Quiescent /\ (dialog_active \/ system_state = "DIALOG"))
        => follow_up_timer = "pending"

\* C35: once a shutdown has killed its first worker, no follow-up timer is
\* armed: the timer was cancelled before the kills, so on_follow_up_timeout
\* cannot run afterwards
TimerCancelledAtShutdown ==
    (stopping /\ kill_order # <<>>) => follow_up_timer # "pending"

\* the latest health observed of some worker is NOT_SERVING
SomeNotServing == \E s \in Services : health_status[s] = "NOT_SERVING"

OneCallPerWake ==
    \A h \in Handlers :
        (hpc[h] = "results" /\ "SttStart" \in hlog[h].calls)
            => last_accepted.peer_calls = {}

\* C38: after startup, whenever the system is IDLE with no wake event waiting
\* and no handler or Timer thread running, the wake detector is enabled
IdleImpliesEnabled ==
    (spc = "ready" /\ system_state = "IDLE" /\ Quiescent /\ event_queue = <<>>)
        => kwd_enabled

\* C39: WriteDialog always returns and releases the LogManager lock, also for
\* an id that new_dialog never returned: no write_dialog_log call is left
\* holding the lock
WriteDialogReturns == log_lock # WriteDialogCall

\* C40: GetStatus never reports SERVING for a worker that has no running
\* process, be it stopped by stop_service or exited on its own
NoServingWithoutProcess ==
    \A s \in Services :
        (Serving /\ ~Running(s)) => ServiceHealth[s] # "SERVING"

====
